---- MODULE Spec2Model ----
(***************************************************************************)
(* A model of demo.py: the demo(msg) decorator, save, log_error, the four   *)
(* demo routines and the __main__ entry point.  The crawler (crawl4ai's    *)
(* AsyncWebCrawler) is an opaque collaborator: its fetches return outcomes *)
(* chosen nondeterministically, and it, the directory creation and the     *)
(* file writes may raise.                                                   *)
(***************************************************************************)
EXTENDS Integers, Sequences, FiniteSets, TLC

\* ---------------------------------------------------------------- bounds

\* Longest text payload handed to save in SpecSave.
MaxLen == 3
\* Longest list of image / link references in a crawl outcome.
MaxRefs == 1
\* Number of top-level invocations the caller of SpecCalls makes.
MaxCalls == 2

\* ------------------------------------------------------------- constants

\* The three URLs of demo_parallel_craw: arun_many returns one outcome each.
NumUrls == 3
\* The four asyncio.run lines of __main__.
NumRoutines == 4

NL == "\n"
Chars == {"a", "b", NL}
\* The src values of images and the href values of links.
Srcs == {"u", "v"}
Hrefs == {"w"}

\* ------------------------------------------------------------ text, save

\* Index of the first newline of s, 0 when there is none.
FirstNL(s) ==
    IF \E k \in 1..Len(s) : s[k] = NL
    THEN CHOOSE k \in 1..Len(s) : s[k] = NL /\ \A j \in 1..(k - 1) : s[j] # NL
    ELSE 0

\* Python's content.split("\n"): the newline-separated segments of s.
RECURSIVE split(_)
split(s) ==
    LET k == FirstNL(s) IN
    IF k = 0 THEN << s >>
    ELSE << SubSeq(s, 1, k - 1) >> \o split(SubSeq(s, k + 1, Len(s)))

\* The write of one segment when the line terminator is left out.
WriteLineNoNL(line) == line

\* f.write(f"{line}\n"): the characters one segment adds to the file.
WriteLine(line) == line \o << NL >>

\* The loop of save: every segment written in order, onto the text so far.
RECURSIVE WriteLines(_, _)
WriteLines(sofar, segs) ==
    IF segs = << >> THEN sofar
    ELSE WriteLines(sofar \o WriteLine(Head(segs)), Tail(segs))

\* open(des, "a"): the old content is kept.
OpenAppend(old) == old

\* open(des, "w"): the file is truncated to nothing, whatever it held.
OpenTruncate(old) == << >>

\* The content of the file after save(des, content), old being what it held.
save(old, content) == WriteLines(OpenTruncate(old), split(content))

\* A reader's view of a text file: its lines, each ended by its newline, and
\* the unterminated rest (if any) as a last line.
RECURSIVE ReadLines(_)
ReadLines(t) ==
    LET k == FirstNL(t) IN
    IF t = << >> THEN << >>
    ELSE IF k = 0 THEN << t >>
    ELSE << SubSeq(t, 1, k - 1) >> \o ReadLines(SubSeq(t, k + 1, Len(t)))

\* The number of newline characters of t.
CountNL(t) == Cardinality({k \in 1..Len(t) : t[k] = NL})

SeqsUpTo(S, n) == UNION {[1..k -> S] : k \in 0..n}

\* ------------------------------------------------- paths, configurations

\* An entry point that runs demo 3 before demo 2.
RoutinesSwapped ==
    << "demo_basic_crawl", "demo_fit_markdown", "demo_parallel_craw",
       "demo_media_and_links" >>

\* The routines in the order of the asyncio.run lines of __main__.
Routines ==
    << "demo_basic_crawl", "demo_parallel_craw", "demo_fit_markdown",
       "demo_media_and_links" >>

RoutineSet == {Routines[k] : k \in 1..NumRoutines}

\* The keyword arguments of the four asyncio.run lines of __main__.
Config(op) ==
    CASE op = "demo_basic_crawl" ->
           [save_dir |-> << "saves", "demo", "Demo_1" >>, file_name |-> "Demo-1_basic_crawl"]
      [] op = "demo_parallel_craw" ->
           [save_dir |-> << "saves", "demo", "Demo_2" >>, file_name |-> "Demo-2_parallel_craw"]
      [] op = "demo_fit_markdown" ->
           [save_dir |-> << "saves", "demo", "Demo_3" >>, file_name |-> "Demo-3_fit_markdown"]
      [] OTHER ->
           [save_dir |-> << "saves", "demo", "Demo_4" >>, file_name |-> "Demo-4_media_and_links"]

\* os.path.join(save_dir, f"{file_name}{suffix}"); idx is the {i} of the
\* per-index name of demo_parallel_craw and -1 where the name has none.
join(save_dir, file_name, suffix, idx) ==
    [dir |-> save_dir, name |-> file_name, suffix |-> suffix, idx |-> idx]

NoPath == join(<< >>, "", "", -1)

\* The directories os.makedirs(d) makes sure of: d and all its ancestors.
Ancestors(d) == {SubSeq(d, 1, k) : k \in 1..Len(d)}

\* os.makedirs that forgets to create anything.
makedirs_nothing(ds, d) == ds

\* os.makedirs(d): d is created, intermediate directories included.
makedirs(ds, d) == ds \cup Ancestors(d)

\* os.path.exists that always answers False.
exists_never(ds, d) == FALSE

\* os.path.exists(d).
exists(ds, d) == d \in ds

\* --------------------------------------------------------- crawl outcomes

ImageLists == SeqsUpTo(Srcs, MaxRefs)

LinkLists == SeqsUpTo(Hrefs, MaxRefs)

\* The renderings the collaborator may return, the spec's "# Title\nBody"
\* shape among them.
Markdowns == {<< "a" >>, << "a", NL, "b" >>}

\* A CrawlResult as far as demo.py reads it.
Outcome(success, raw, fit, images, internal, external) ==
    [success |-> success, raw |-> raw, fit |-> fit,
     images |-> images, internal |-> internal, external |-> external]

Failed == Outcome(FALSE, << >>, << >>, << >>, << >>, << >>)

\* What one URL's fetch may resolve to, by routine.
OutcomesOf(op) ==
    CASE op = "demo_basic_crawl" \/ op = "demo_parallel_craw" ->
           {Failed} \cup {Outcome(TRUE, m, << >>, << >>, << >>, << >>) : m \in Markdowns}
      [] op = "demo_fit_markdown" ->
           {Failed} \cup {Outcome(TRUE, m, f, << >>, << >>, << >>) : m \in Markdowns, f \in Markdowns}
      [] OTHER ->
           {Failed} \cup {Outcome(TRUE, << >>, << >>, im, il, el) :
                             im \in ImageLists, il \in LinkLists, el \in LinkLists}

\* crawler.arun(url=...) resolves to one outcome, crawler.arun_many(urls=urls)
\* to one outcome per URL, in the order of the URLs.
ResultsOf(op) ==
    IF op = "demo_parallel_craw"
    THEN [1..NumUrls -> OutcomesOf(op)]
    ELSE [1..1 -> OutcomesOf(op)]

\* ------------------------------------------------------------------ JSON

RECURSIVE JsonItems(_)
JsonItems(xs) ==
    IF xs = << >> THEN << >>
    ELSE IF Len(xs) = 1 THEN << xs[1] >>
    ELSE << xs[1], "," >> \o JsonItems(Tail(xs))

JsonMember(key, xs) == << key, ":", "[" >> \o JsonItems(xs) \o << "]" >>

\* json.dump(out, f, indent=4) as the token stream of the document, white
\* space left out: an object of three members, each an array of strings.
json_dump(out) ==
    << "{" >> \o JsonMember("images", out.images) \o << "," >>
              \o JsonMember("internal_links", out.internal_links) \o << "," >>
              \o JsonMember("external_links", out.external_links) \o << "}" >>

\* The keys of a parsed document: the tokens a colon follows.
JsonKeys(doc) == {doc[k] : k \in {j \in 1..(Len(doc) - 1) : doc[j + 1] = ":"}}

RECURSIVE JsonArrayFrom(_, _)
JsonArrayFrom(doc, k) ==
    IF k > Len(doc) \/ doc[k] = "]" THEN << >>
    ELSE IF doc[k] = "," THEN JsonArrayFrom(doc, k + 1)
    ELSE << doc[k] >> \o JsonArrayFrom(doc, k + 1)

\* The array a parsed document maps key to.
JsonArray(doc, key) ==
    LET at == CHOOSE j \in 1..(Len(doc) - 2) : doc[j] = key /\ doc[j + 1] = ":"
    IN JsonArrayFrom(doc, at + 3)

\* [image["src"] for image in images] and the two href projections: the
\* collaborator's references are modelled by their locator.
Project(refs) == [k \in 1..Len(refs) |-> refs[k]]

\* The mapping demo_media_and_links assembles from one outcome.
OutOf(result) ==
    [images |-> Project(result.images),
     internal_links |-> Project(result.internal),
     external_links |-> Project(result.external)]

\* --------------------------------------------------------------- console

\* One print call: the style it is rendered in, its text, the numbers it
\* interpolates.
Line(style, text, args) == [style |-> style, text |-> text, args |-> args]

\* print(f"\n>>> \033[32m{msg}\033[0m <<<\n")
Banner(msg) == Line("green", msg, << >>)

\* log_error(msg): print(f"\033[31m{msg}\033[0m")
log_error(msg, args) == Line("red", msg, args)

\* ----------------------------------------------------------------- state

VARIABLES
    mainpc,     \* __main__: the asyncio.run line to run next (1..4), 5 once all
                \* have returned, 0 once an exception has ended the process
    callNo,     \* the number of top-level invocations started
    call,       \* the invocation in progress: routine (or save), how save_dir
                \* was supplied, and save's arguments
    pc,         \* where the invocation in progress is
    dirs,       \* the directories that exist
    fs,         \* the files that exist, with their content
    console,    \* the print calls of the invocation in progress
    crawler,    \* the AsyncWebCrawler of the invocation in progress
    uses,       \* which invocation has entered or fetched with which crawler
    results,    \* what the fetch resolved to
    idx,        \* the number of outcomes handled: the i of enumerate(results)
    exc,        \* the exception in flight, named by the call that raised it,
                \* "none" when there is none
    ret,        \* what the routine's body and the wrapper returned
    writeLog,   \* every file opened for writing: path, routine, invocation, i
    prev        \* the last invocation that ended: what it was and what it left
                \* (before the first: the filesystem the process started in)

vars ==
    << mainpc, callNo, call, pc, dirs, fs, console, crawler, uses, results,
       idx, exc, ret, writeLog, prev >>

NoCall == [op |-> "none", mode |-> "kw", des |-> NoPath, content |-> << >>]

NoCrawler == [id |-> 0, state |-> "none", entered |-> 0]

NoRet == [body |-> "unset", wrap |-> "unset"]

EmptyFs == [p \in {} |-> << >>]

NoPrev == [op |-> "none", mode |-> "kw", results |-> << >>, exc |-> "none",
           fs |-> EmptyFs, dirs |-> {}]

\* The filesystems a process may start in: nothing there, or the directories
\* an earlier run created before it ended.
StartDirs ==
    {{}} \cup {Ancestors(<< "saves" >>)} \cup {Ancestors(<< "saves", "demo" >>)}
         \cup {UNION {Ancestors(Config(Routines[j]).save_dir) : j \in 1..k} :
                  k \in 1..NumRoutines}

InitCommon ==
    /\ callNo = 0
    /\ call = NoCall
    /\ pc = "idle"
    /\ fs = EmptyFs
    /\ console = << >>
    /\ crawler = NoCrawler
    /\ uses = {}
    /\ results = << >>
    /\ idx = 0
    /\ exc = "none"
    /\ ret = NoRet
    /\ writeLog = {}

\* The process as python starts it, about to run line 145.
Init ==
    /\ InitCommon
    /\ mainpc = 1
    /\ dirs \in StartDirs
    /\ prev = [NoPrev EXCEPT !.dirs = dirs]

\* ------------------------------------------------------------ file writes

PutFile(f, des, text) ==
    [p \in DOMAIN f \cup {des} |-> IF p = des THEN text ELSE f[p]]

OldText(f, des) == IF des \in DOMAIN f THEN f[des] ELSE << >>

Effect(f, e, opened) == [fs |-> f, exc |-> e, opened |-> opened]

\* save(des, content) on filesystem f with directories ds: the directory
\* is missing and open raises; open raises for another reason; the writes
\* complete; or a write raises after the file was truncated and k of the
\* segments were written.
SaveEffects(f, ds, des, content) ==
    IF ~exists(ds, des.dir)
    THEN {Effect(f, "open:FileNotFoundError", FALSE)}
    ELSE {Effect(PutFile(f, des, save(OldText(f, des), content)), "none", TRUE)}
         \cup {Effect(f, "open:OSError", FALSE)}
         \cup {Effect(PutFile(f, des, WriteLines(OpenTruncate(OldText(f, des)),
                                                 SubSeq(split(content), 1, k))),
                      "write:OSError", TRUE) : k \in 0..(Len(split(content)) - 1)}

\* with open(file_path, "w") as f: json.dump(out, f, indent=4), with the
\* same ways to fail; a failed dump leaves the truncated file.
JsonEffects(f, ds, des, out) ==
    IF ~exists(ds, des.dir)
    THEN {Effect(f, "open:FileNotFoundError", FALSE)}
    ELSE {Effect(PutFile(f, des, json_dump(out)), "none", TRUE),
          Effect(f, "open:OSError", FALSE),
          Effect(PutFile(f, des, OpenTruncate(OldText(f, des))), "write:OSError", TRUE)}

Logged(des, opened) ==
    IF opened
    THEN {[path |-> des, op |-> call.op, call |-> callNo, idx |-> idx]}
    ELSE {}

\* -------------------------------------------------------- the decorator

Msg(op) ==
    CASE op = "demo_basic_crawl" -> "Demo 1: Basic web crawling."
      [] op = "demo_parallel_craw" -> "Demo 2: Parallel Crawling."
      [] op = "demo_fit_markdown" -> "Demo 3: Fit Markdown"
      [] OTHER -> "Demo 4: Media and Links"

\* "save_dir" in kwargs
HasSaveDir(mode) == mode = "kw"

\* A caller's invocation of a decorated routine: wrap(*args, **kwargs) is
\* entered; mode says whether save_dir came as a keyword or by position.
Enter(op, mode) ==
    /\ callNo' = callNo + 1
    /\ call' = [op |-> op, mode |-> mode, des |-> NoPath, content |-> << >>]
    /\ pc' = "wrap"
    /\ console' = << >>
    /\ crawler' = [crawler EXCEPT !.state = "none", !.entered = 0]
    /\ results' = << >>
    /\ idx' = 0
    /\ exc' = "none"
    /\ ret' = NoRet
    /\ UNCHANGED << mainpc, dirs, fs, uses, writeLog, prev >>

\* wrap up to its await: the banner, then the directory if "save_dir" is a
\* keyword argument and the path does not exist; os.makedirs may raise.
wrap ==
    /\ pc = "wrap"
    /\ console' = Append(console, Banner(Msg(call.op)))
    /\ IF HasSaveDir(call.mode) /\ ~exists(dirs, Config(call.op).save_dir)
       THEN \/ /\ dirs' = makedirs(dirs, Config(call.op).save_dir)
               /\ pc' = "body"
               /\ exc' = exc
            \/ /\ dirs' = dirs
               /\ pc' = "raised"
               /\ exc' = "makedirs:OSError"
       ELSE /\ dirs' = dirs
            /\ pc' = "body"
            /\ exc' = exc
    /\ UNCHANGED << mainpc, callNo, call, fs, crawler, uses, results, idx, ret,
                    writeLog, prev >>

\* return await f(*args, **kwargs)
WrapResult(r) == r

WrapReturn ==
    /\ pc = "bodydone"
    /\ ret' = [ret EXCEPT !.wrap = WrapResult(ret.body)]
    /\ pc' = "returned"
    /\ UNCHANGED << mainpc, callNo, call, dirs, fs, console, crawler, uses,
                    results, idx, exc, writeLog, prev >>

\* ------------------------------------------------- the crawler's scope

\* AsyncWebCrawler(): a new object on every evaluation.
NewCrawlerId(c) == c.id + 1

\* async with AsyncWebCrawler() as crawler: the routine's body starts, the
\* crawler is constructed and entered, or its start raises.
Acquire ==
    /\ pc = "body"
    /\ \/ /\ crawler' = [id |-> NewCrawlerId(crawler), state |-> "open",
                         entered |-> crawler.entered + 1]
          /\ uses' = uses \cup {<< NewCrawlerId(crawler), callNo >>}
          /\ pc' = "fetch"
          /\ exc' = exc
       \/ /\ crawler' = [crawler EXCEPT !.id = NewCrawlerId(crawler)]
          /\ uses' = uses
          /\ pc' = "raised"
          /\ exc' = "crawler:start"
    /\ UNCHANGED << mainpc, callNo, call, dirs, fs, console, results, idx, ret,
                    writeLog, prev >>

\* await crawler.arun(...) / await crawler.arun_many(urls=urls): resolves to
\* the outcomes, or raises.
Fetch ==
    /\ pc = "fetch"
    /\ uses' = uses \cup {<< crawler.id, callNo >>}
    /\ \/ /\ \E rs \in ResultsOf(call.op) : results' = rs
          /\ pc' = "loop"
          /\ exc' = exc
       \/ /\ results' = results
          /\ pc' = "unwind"
          /\ exc' = "crawler:fetch"
    /\ idx' = 0
    /\ UNCHANGED << mainpc, callNo, call, dirs, fs, console, crawler, ret,
                    writeLog, prev >>

\* An exit that leaves the crawler open.
CloseNot(c) == c

\* AsyncWebCrawler.__aexit__: the crawler is closed.
Close(c) == [c EXCEPT !.state = "closed"]

\* The async with block is left normally (its end, or demo_fit_markdown's
\* early return): the crawler is closed and the body returns None.
Release ==
    /\ pc = "exit"
    /\ crawler' = Close(crawler)
    /\ ret' = [ret EXCEPT !.body = "None"]
    /\ pc' = "bodydone"
    /\ UNCHANGED << mainpc, callNo, call, dirs, fs, console, uses, results,
                    idx, exc, writeLog, prev >>

\* The async with block is left by an exception: the crawler is closed and
\* the exception goes on to the caller.
Unwind ==
    /\ pc = "unwind"
    /\ crawler' = Close(crawler)
    /\ pc' = "raised"
    /\ UNCHANGED << mainpc, callNo, call, dirs, fs, console, uses, results,
                    idx, exc, ret, writeLog, prev >>

\* ------------------------------------------------------ the four bodies

FilePath1(cfg) == join(cfg.save_dir, cfg.file_name, ".md", -1)

\* A per-index name that leaves the index out.
FilePath2NoIndex(cfg, i) == join(cfg.save_dir, cfg.file_name, "_url-{i}.md", 0)

\* os.path.join(save_dir, f"{file_name}_url-{i}.md")
FilePath2(cfg, i) == join(cfg.save_dir, cfg.file_name, "_url-{i}.md", i)

FilePathRaw(cfg) == join(cfg.save_dir, cfg.file_name, "_raw.md", -1)

FilePathFit(cfg) == join(cfg.save_dir, cfg.file_name, "_fit.md", -1)

FilePath4(cfg) == join(cfg.save_dir, cfg.file_name, ".json", -1)

Flag(b) == IF b THEN 1 ELSE 0

\* After one outcome: on to the next, out of the loop, or out by exception e.
Continue(e) ==
    IF e = "none"
    THEN /\ idx' = idx + 1
         /\ pc' = IF idx + 1 < Len(results) THEN "loop" ELSE "exit"
         /\ exc' = exc
    ELSE /\ idx' = idx
         /\ pc' = "unwind"
         /\ exc' = e

\* A success test that takes every outcome for a success.
SucceededAlways(result) == TRUE

\* if result.success: / if not result.success:
Succeeded(result) == result.success

\* print(f"Result {i} Success: {result.success}")
Status1(i, success) == Line("plain", "Result {i} Success: {success}", << i, Flag(success) >>)

\* print(f"Error crawling this url.")
Report1 == Line("plain", "Error crawling this url.", << >>)

\* One iteration of demo_basic_crawl's loop.
demo_basic_crawl ==
    /\ pc = "loop"
    /\ call.op = "demo_basic_crawl"
    /\ idx < Len(results)
    /\ LET result == results[idx + 1]
           file_path == FilePath1(Config(call.op))
       IN IF Succeeded(result)
          THEN \E e \in SaveEffects(fs, dirs, file_path, result.raw) :
                  /\ fs' = e.fs
                  /\ writeLog' = writeLog \cup Logged(file_path, e.opened)
                  /\ console' = Append(console, Status1(idx, result.success))
                  /\ Continue(e.exc)
          ELSE /\ console' = console \o << Status1(idx, result.success), Report1 >>
               /\ UNCHANGED << fs, writeLog >>
               /\ Continue("none")
    /\ UNCHANGED << mainpc, callNo, call, dirs, crawler, uses, results, ret, prev >>

\* One iteration of demo_parallel_craw's loop.
demo_parallel_craw ==
    /\ pc = "loop"
    /\ call.op = "demo_parallel_craw"
    /\ idx < Len(results)
    /\ LET result == results[idx + 1]
           file_path == FilePath2(Config(call.op), idx)
           head == Line("plain", "Result {i} ", << idx >>)
       IN IF Succeeded(result)
          THEN \E e \in SaveEffects(fs, dirs, file_path, result.raw) :
                  /\ fs' = e.fs
                  /\ writeLog' = writeLog \cup Logged(file_path, e.opened)
                  /\ console' = console \o << head, Line("plain", "Success", << >>) >>
                  /\ Continue(e.exc)
          ELSE /\ console' = console \o << head, log_error("Failed.", << >>) >>
               /\ UNCHANGED << fs, writeLog >>
               /\ Continue("none")
    /\ UNCHANGED << mainpc, callNo, call, dirs, crawler, uses, results, ret, prev >>

\* demo_fit_markdown after its fetch: the early return on failure, else the
\* two saves and the sizes.
demo_fit_markdown ==
    /\ pc = "loop"
    /\ call.op = "demo_fit_markdown"
    /\ idx < Len(results)
    /\ LET result == results[idx + 1]
           raw_path == FilePathRaw(Config(call.op))
           fit_path == FilePathFit(Config(call.op))
           sizes == Line("plain", "Raw size: {}\nFit size: {}",
                         << Len(result.raw), Len(result.fit) >>)
       IN IF ~Succeeded(result)
          THEN /\ console' = Append(console, log_error("Failed to crawl the website.", << >>))
               /\ UNCHANGED << fs, writeLog >>
               /\ Continue("none")
          ELSE \E e1 \in SaveEffects(fs, dirs, raw_path, result.raw) :
                  IF e1.exc # "none"
                  THEN /\ fs' = e1.fs
                       /\ writeLog' = writeLog \cup Logged(raw_path, e1.opened)
                       /\ console' = console
                       /\ Continue(e1.exc)
                  ELSE \E e2 \in SaveEffects(e1.fs, dirs, fit_path, result.fit) :
                          /\ fs' = e2.fs
                          /\ writeLog' = writeLog \cup Logged(raw_path, e1.opened)
                                                  \cup Logged(fit_path, e2.opened)
                          /\ console' = IF e2.exc = "none" THEN Append(console, sizes)
                                        ELSE console
                          /\ Continue(e2.exc)
    /\ UNCHANGED << mainpc, callNo, call, dirs, crawler, uses, results, ret, prev >>

\* A report that prints the number of images for all three counts.
CountsSame(images, internal_links, external_links) ==
    Line("plain", "FoundImages: {}\nInternal Links: {}\nExternal Links: {}\n",
         << Len(images), Len(images), Len(images) >>)

\* print(f"Found" f"Images: {len(images)}\n" f"Internal Links: ..." ...)
Counts(images, internal_links, external_links) ==
    Line("plain", "FoundImages: {}\nInternal Links: {}\nExternal Links: {}\n",
         << Len(images), Len(internal_links), Len(external_links) >>)

\* One iteration of demo_media_and_links' loop.
demo_media_and_links ==
    /\ pc = "loop"
    /\ call.op = "demo_media_and_links"
    /\ idx < Len(results)
    /\ LET result == results[idx + 1]
           file_path == FilePath4(Config(call.op))
       IN IF ~Succeeded(result)
          THEN /\ console' = Append(console, log_error("Result {i}: Failed to crawl.", << idx >>))
               /\ UNCHANGED << fs, writeLog >>
               /\ Continue("none")
          ELSE \E e \in JsonEffects(fs, dirs, file_path, OutOf(result)) :
                  /\ fs' = e.fs
                  /\ writeLog' = writeLog \cup Logged(file_path, e.opened)
                  /\ console' = IF e.exc = "none"
                                THEN Append(console, Counts(result.images, result.internal,
                                                            result.external))
                                ELSE console
                  /\ Continue(e.exc)
    /\ UNCHANGED << mainpc, callNo, call, dirs, crawler, uses, results, ret, prev >>

\* --------------------------------------------------------------- callers

\* What an invocation that has ended leaves to look back on.
Ended ==
    [op |-> call.op, mode |-> call.mode, results |-> results, exc |-> exc,
     fs |-> fs, dirs |-> dirs]

\* asyncio.run(demo_...(save_dir=..., file_name=...)): the next line of
\* __main__ starts its routine.
MainCall ==
    /\ pc = "idle"
    /\ mainpc \in 1..NumRoutines
    /\ Enter(Routines[mainpc], "kw")

\* The routine returned: __main__ goes on to its next line.
MainReturn ==
    /\ pc = "returned"
    /\ mainpc \in 1..NumRoutines
    /\ mainpc' = mainpc + 1
    /\ pc' = "idle"
    /\ prev' = Ended
    /\ UNCHANGED << callNo, call, dirs, fs, console, crawler, uses, results,
                    idx, exc, ret, writeLog >>

\* The routine raised: nothing in __main__ catches it, the process ends.
MainCrash ==
    /\ pc = "raised"
    /\ mainpc \in 1..NumRoutines
    /\ mainpc' = 0
    /\ pc' = "dead"
    /\ prev' = Ended
    /\ UNCHANGED << callNo, call, dirs, fs, console, crawler, uses, results,
                    idx, exc, ret, writeLog >>

\* A caller that imported the module invokes a routine, save_dir given as a
\* keyword or by position, with the configuration __main__ gives it.
Invoke ==
    /\ pc = "idle"
    /\ mainpc = -1
    /\ callNo < MaxCalls
    /\ \E op \in RoutineSet, mode \in {"kw", "pos"} : Enter(op, mode)

\* The caller gets the routine's result or its exception, and goes on.
Resume ==
    /\ pc \in {"returned", "raised"}
    /\ mainpc = -1
    /\ pc' = "idle"
    /\ prev' = Ended
    /\ UNCHANGED << mainpc, callNo, call, dirs, fs, console, crawler, uses,
                    results, idx, exc, ret, writeLog >>

\* save(des, content) called on its own.
SaveCall ==
    /\ pc = "idle"
    /\ call.op = "save"
    /\ \E e \in SaveEffects(fs, dirs, call.des, call.content) :
          /\ fs' = e.fs
          /\ exc' = e.exc
          /\ pc' = IF e.exc = "none" THEN "returned" ELSE "raised"
          /\ writeLog' = writeLog \cup Logged(call.des, e.opened)
    /\ callNo' = callNo + 1
    /\ UNCHANGED << mainpc, call, dirs, console, crawler, uses, results, idx,
                    ret, prev >>

\* -------------------------------------------------------- specifications

Step ==
    \/ wrap
    \/ Acquire
    \/ Fetch
    \/ demo_basic_crawl
    \/ demo_parallel_craw
    \/ demo_fit_markdown
    \/ demo_media_and_links
    \/ Release
    \/ Unwind
    \/ WrapReturn

Next == MainCall \/ MainReturn \/ MainCrash \/ Step

\* python demo.py
Spec == Init /\ [][Next]_vars

\* asyncio.run drives each coroutine until it returns or raises, and every
\* await of the collaborator resolves or raises.
FairSpec == Spec /\ WF_vars(Next)

\* The module imported, its __main__ block not run.
InitCalls ==
    /\ InitCommon
    /\ mainpc = -1
    /\ dirs \in StartDirs
    /\ prev = [NoPrev EXCEPT !.dirs = dirs]

NextCalls == Invoke \/ Resume \/ Step

SpecCalls == InitCalls /\ [][NextCalls]_vars

SaveDes == FilePath1(Config("demo_basic_crawl"))

\* What the file at des may hold before save: nothing (no file), or text
\* with and without a final newline.
OldFiles == {EmptyFs, PutFile(EmptyFs, SaveDes, << "b" >>),
             PutFile(EmptyFs, SaveDes, << "b", NL, "b", NL, "a", NL, NL >>)}

\* A caller about to run save(des, content).
InitSave ==
    /\ callNo = 0
    /\ pc = "idle"
    /\ console = << >>
    /\ crawler = NoCrawler
    /\ uses = {}
    /\ results = << >>
    /\ idx = 0
    /\ exc = "none"
    /\ ret = NoRet
    /\ writeLog = {}
    /\ mainpc = -1
    /\ dirs \in {{}, Ancestors(SaveDes.dir)}
    /\ fs \in OldFiles
    /\ prev = [NoPrev EXCEPT !.fs = fs, !.dirs = dirs]
    /\ \E c \in SeqsUpTo(Chars, MaxLen) :
          call = [op |-> "save", mode |-> "pos", des |-> SaveDes, content |-> c]

NextSave == SaveCall

SpecSave == InitSave /\ [][NextSave]_vars

\* ---------------------------------------------------------------- claims

SaveReturned == call.op = "save" /\ pc = "returned"

\* C1 (as amended): after save(des, P), P having N newline-separated
\* segments, the file at des is P followed by one newline, whatever it held
\* before: it has N newlines and ends in one, its N newline-terminated
\* lines are the N segments of P in order, and split on newlines (as P was)
\* it gives N + 1 segments, the N of P and a last empty one.
C1_SaveWritesLines ==
    SaveReturned =>
        /\ call.des \in DOMAIN fs
        /\ LET text == fs[call.des]
               segs == split(call.content)
               N == Len(segs)
           IN /\ text = call.content \o << NL >>
              /\ CountNL(text) = N
              /\ text[Len(text)] = NL
              /\ ReadLines(text) = segs
              /\ Len(ReadLines(text)) = N
              /\ split(text) = segs \o << << >> >>

\* C1 as stated: splitting the written file back into newline-separated
\* segments recovers exactly the N segments of P.
C1_Original ==
    SaveReturned =>
        /\ call.des \in DOMAIN fs
        /\ split(fs[call.des]) = split(call.content)

\* save has overwritten a longer file with a payload that has an empty
\* segment and ends in a newline.
C1_Witness ==
    /\ SaveReturned
    /\ call.content = << "a", NL, NL >>
    /\ call.des \in DOMAIN prev.fs
    /\ Len(prev.fs[call.des]) > Len(fs[call.des])

SaveDir == Config(call.op).save_dir

PastWrap == {"body", "fetch", "loop", "exit", "unwind", "bodydone", "returned", "raised"}

\* C2: an invocation of a decorated routine with the output directory named
\* by the save_dir keyword creates that directory exactly when it did not
\* exist beforehand (os.makedirs not raising); when it existed, as on a
\* second invocation after a first that got past the wrapper, nothing is
\* created, the wrapper raises nothing and the directory stays.
C2_CreatesIffAbsent ==
    (pc \in PastWrap /\ call.op \in RoutineSet /\ call.mode = "kw") =>
        /\ SaveDir \in prev.dirs =>
              /\ dirs = prev.dirs
              /\ exc # "makedirs:OSError"
        /\ SaveDir \notin prev.dirs =>
              \/ exc = "makedirs:OSError" /\ dirs = prev.dirs /\ pc = "raised"
              \/ exc # "makedirs:OSError" /\ dirs = prev.dirs \cup Ancestors(SaveDir)
                    /\ SaveDir \in dirs
        /\ (prev.op = call.op /\ prev.mode = "kw" /\ prev.exc # "makedirs:OSError") =>
              /\ SaveDir \in prev.dirs
              /\ dirs = prev.dirs
              /\ exc # "makedirs:OSError"

\* A second keyword invocation of the routine whose directory the first
\* one created: the body is reached with nothing created.
C2_Witness ==
    /\ callNo = 2
    /\ pc = "body"
    /\ call.op = "demo_media_and_links"
    /\ call.mode = "kw"
    /\ prev.op = call.op
    /\ prev.mode = "kw"
    /\ dirs = Ancestors(SaveDir)
    /\ dirs = prev.dirs

InBody == {"body", "fetch", "loop", "exit", "unwind", "bodydone"}

BannerFirst == Len(console) >= 1 /\ console[1] = Line("green", Msg(call.op), << >>)

ReturnsBodyResult == pc = "returned" => (ret.body = "None" /\ ret.wrap = ret.body)

\* C3 (as amended): on every invocation of a decorated routine the banner
\* is emitted before the body starts and the wrapper returns exactly the
\* body's result; the output directory exists before the body starts when
\* it is supplied as the keyword argument save_dir.
C3_KeywordSetup ==
    /\ pc \in InBody => BannerFirst
    /\ (pc \in InBody /\ call.mode = "kw") => SaveDir \in dirs
    /\ ReturnsBodyResult

\* C3 as stated: the directory exists before the body starts however the
\* output directory argument is supplied.
C3_Original ==
    /\ pc \in InBody => BannerFirst
    /\ pc \in InBody => SaveDir \in dirs
    /\ ReturnsBodyResult

\* The body about to start after the wrapper created the keyword-supplied
\* directory.
C3_Witness ==
    /\ pc = "body"
    /\ call.mode = "kw"
    /\ SaveDir \in dirs
    /\ SaveDir \notin prev.dirs
    /\ BannerFirst

\* The files the invocation in progress has opened for writing.
WrittenNow == {e.path : e \in {x \in writeLog : x.call = callNo}}

\* The file at path is as the invocation found it.
Untouched(path) ==
    /\ path \in DOMAIN fs <=> path \in DOMAIN prev.fs
    /\ path \in DOMAIN fs => fs[path] = prev.fs[path]

ParallelReturned == call.op = "demo_parallel_craw" /\ pc = "returned"

\* The path of index i, spelled as line 73 spells it.
UrlPath(i) ==
    [dir |-> << "saves", "demo", "Demo_2" >>, name |-> "Demo-2_parallel_craw",
     suffix |-> "_url-{i}.md", idx |-> i]

\* C4 (as amended): when demo_parallel_craw has handled a result set of
\* size K it has written at most K files, the file of index i (named with
\* i) exactly for the outcomes i with success = true, each holding that
\* outcome's markdown; the file of a failed outcome i is left as it was
\* found, so that it is present exactly when it was present beforehand,
\* and where none of the files existed beforehand the file of i is present
\* iff outcome i succeeded.  What happens to index i depends on outcome i
\* alone.
C4_WritesIffSuccess ==
    ParallelReturned =>
        LET K == Len(results) IN
        /\ WrittenNow = {UrlPath(i) : i \in {j \in 0..(K - 1) : results[j + 1].success}}
        /\ Cardinality(WrittenNow) <= K
        /\ \A i \in 0..(K - 1) :
              IF results[i + 1].success
              THEN /\ UrlPath(i) \in DOMAIN fs
                   /\ fs[UrlPath(i)] = results[i + 1].raw \o << NL >>
              ELSE Untouched(UrlPath(i))
        /\ \A p \in (DOMAIN fs \cup DOMAIN prev.fs) \ {UrlPath(i) : i \in 0..(K - 1)} :
              Untouched(p)
        /\ (\A i \in 0..(K - 1) : UrlPath(i) \notin DOMAIN prev.fs) =>
              \A i \in 0..(K - 1) : UrlPath(i) \in DOMAIN fs <=> results[i + 1].success

\* C4 as stated: after the routine the file of index i is present if and
\* only if outcome i has success = true.
C4_Original ==
    ParallelReturned =>
        \A i \in 0..(Len(results) - 1) :
            UrlPath(i) \in DOMAIN fs <=> results[i + 1].success

\* A second run over files of a first: outcome 0 failed and its old file is
\* still there, outcome 1 succeeded with other markdown than before.
C4_Witness ==
    /\ ParallelReturned
    /\ ~results[1].success
    /\ UrlPath(0) \in DOMAIN fs
    /\ results[2].success
    /\ UrlPath(1) \in DOMAIN prev.fs
    /\ prev.fs[UrlPath(1)] # fs[UrlPath(1)]
    /\ ~results[3].success
    /\ UrlPath(2) \notin DOMAIN fs

BasicFailed ==
    /\ call.op = "demo_basic_crawl"
    /\ pc = "returned"
    /\ ~results[1].success

\* C5 (as amended): a run of demo_basic_crawl whose fetch outcome has
\* success = false writes no file (the filesystem is as it was found) and
\* emits, after the wrapper's banner, exactly two console lines: the status
\* line "Result 0 Success: False" and the failure line "Error crawling this
\* url.".
C5_FailedBasicCrawl ==
    BasicFailed =>
        /\ fs = prev.fs
        /\ WrittenNow = {}
        /\ Len(console) = 3
        /\ console[1].text = "Demo 1: Basic web crawling."
        /\ console[2].text = "Result {i} Success: {success}"
        /\ console[2].args = << 0, 0 >>
        /\ console[3].text = "Error crawling this url."

\* C5 as stated: no file, and the routine emits exactly one console line.
C5_Original ==
    BasicFailed =>
        /\ WrittenNow = {}
        /\ Len(SubSeq(console, 2, Len(console))) = 1

C5_Witness == BasicFailed /\ mainpc = 1 /\ dirs = Ancestors(SaveDir)

MediaWritten ==
    /\ call.op = "demo_media_and_links"
    /\ pc \in {"loop", "exit", "bodydone", "returned"}
    /\ idx >= 1
    /\ results[idx].success

InScope == {"fetch", "loop", "exit", "unwind"}

\* C7: in every routine the crawler is entered at most once and exactly
\* once where the body got past its start, it is open at every fetch and
\* all the while the async with block runs, and it is closed once the
\* routine has ended, by its end, by demo_fit_markdown's early return or by
\* an exception of a fetch or a file write; no crawler is used by two
\* invocations.
C7_CrawlerScoped ==
    /\ crawler.entered <= 1
    /\ pc \in InScope => (crawler.state = "open" /\ crawler.entered = 1)
    /\ crawler.state = "open" => pc \in InScope
    /\ pc \in {"bodydone", "returned"} => (crawler.state = "closed" /\ crawler.entered = 1)
    /\ (pc \in {"raised", "dead"} /\ crawler.entered = 1) => crawler.state = "closed"
    /\ (pc \in {"raised", "dead"} /\ exc \in {"crawler:fetch", "write:OSError",
                                             "open:OSError", "open:FileNotFoundError"}) =>
          (crawler.entered = 1 /\ crawler.state = "closed")
    /\ \A u \in uses : \A v \in uses : u[1] = v[1] => u[2] = v[2]

\* The third routine's second save raised: its crawler, the third of the
\* process, is closed.
C7_Witness ==
    /\ pc = "raised"
    /\ call.op = "demo_fit_markdown"
    /\ exc = "write:OSError"
    /\ crawler.state = "closed"
    /\ Cardinality({u[1] : u \in uses}) = 3
    /\ [dir |-> << "saves", "demo", "Demo_3" >>, name |-> "Demo-3_fit_markdown",
        suffix |-> "_raw.md", idx |-> -1] \in DOMAIN fs

\* C8 as stated: in each of the four routines an outcome with success =
\* false is reported through log_error (the red style), no file is written
\* for it and no exception is raised because of it.
C8_FailuresViaLogError ==
    (pc \in {"loop", "exit"} /\ idx >= 1 /\ ~results[idx].success) =>
        /\ console[Len(console)].style = "red"
        /\ ~\E e \in writeLog : e.call = callNo /\ e.idx = idx - 1
        /\ exc = "none"

\* The order of lines 145 to 148.
MainOrder ==
    << "demo_basic_crawl", "demo_parallel_craw", "demo_fit_markdown",
       "demo_media_and_links" >>

\* Routine k of __main__ runs only as the k-th invocation, after routine
\* k - 1 returned without an exception; an exception has ended the process
\* in the routine that raised it; a failed fetch outcome raises nothing.
Sequenced ==
    /\ (mainpc \in 1..4 /\ pc # "idle") =>
          (call.op = MainOrder[mainpc] /\ callNo = mainpc /\ call.mode = "kw")
    /\ (mainpc \in 1..5 /\ pc = "idle") =>
          /\ callNo = mainpc - 1
          /\ mainpc > 1 => (prev.op = MainOrder[mainpc - 1] /\ prev.exc = "none")
    /\ mainpc = 5 => (pc = "idle" /\ exc = "none")
    /\ mainpc = 0 => (pc = "dead" /\ exc # "none" /\ call.op = MainOrder[callNo])
    /\ (pc \in {"loop", "exit"} /\ idx >= 1 /\ ~results[idx].success) => exc = "none"
    /\ exc # "none" => pc \in {"unwind", "raised", "dead"}

\* An exception is never caught: it leaves the crawler's scope, then the
\* routine, then ends the process, and nothing is started after that.
Halts ==
    /\ pc = "unwind" => pc' = "raised"
    /\ pc = "raised" => (pc' = "dead" /\ mainpc' = 0)
    /\ pc = "dead" => (pc' = "dead" /\ callNo' = callNo)
    /\ exc # "none" => (exc' = exc /\ callNo' = callNo /\ fs' = fs /\ dirs' = dirs)

\* C9: __main__ runs the four routines in the order demo_basic_crawl,
\* demo_parallel_craw, demo_fit_markdown, demo_media_and_links, each after
\* the one before has returned; an exception of os.makedirs, of a file
\* write or of the crawler in routine k is not caught, ends routine k and
\* the process, and no later routine starts; an outcome with success =
\* false raises nothing; and unless an exception is raised all four
\* routines eventually complete.
C9_SequentialToCompletion ==
    /\ []Sequenced
    /\ [][Halts]_vars
    /\ <>(mainpc = 5 \/ exc # "none")

\* Routine 1 met a failed outcome and returned; routine 2 then raised in a
\* file write.
C9_Witness ==
    /\ mainpc = 2
    /\ pc = "raised"
    /\ exc = "write:OSError"
    /\ prev.op = "demo_basic_crawl"
    /\ ~prev.results[1].success

SameAgain ==
    /\ pc = "returned"
    /\ call.op \in RoutineSet
    /\ prev.op = call.op
    /\ prev.mode = call.mode
    /\ prev.exc = "none"
    /\ prev.results = results

\* C10: a routine run twice with the same configuration and the same
\* collaborator outcomes leaves the filesystem after the second run as the
\* first run left it, and with the configurations of __main__ no path is
\* written by two different routines.
C10_Idempotent ==
    /\ SameAgain => (fs = prev.fs /\ dirs = prev.dirs)
    /\ \A e1 \in writeLog : \A e2 \in writeLog : e1.path = e2.path => e1.op = e2.op

\* demo_fit_markdown has run twice on the same successful outcome; both
\* runs wrote its two files.
C10_Witness ==
    /\ SameAgain
    /\ call.op = "demo_fit_markdown"
    /\ results[1].success
    /\ Cardinality({e \in writeLog : e.call = 1}) = 2
    /\ Cardinality({e \in writeLog : e.call = 2}) = 2
====
